---- MODULE Spec2Model ----
(***************************************************************************)
(* Model of src/types/settings.rs: the Settings union, the SettingsObject  *)
(* schema with its nested sandbox records, their typed builders, and the   *)
(* JSON mapping the serde attributes of the schema select.                 *)
(*                                                                         *)
(* A JSON text is modelled as its token tree: an object is the SEQUENCE of *)
(* its entries, in the order written, duplicates kept.  A serde_json Value *)
(* (the values of `extra`) is modelled with an object as a MAP.            *)
(***************************************************************************)
EXTENDS Integers, Sequences, FiniteSets, TLC

VARIABLES
    value,      \* the structured value at hand: <<>> or <<[ty, val]>>
    text,       \* the JSON text at hand: <<>> or <<[ty, json]>>
    decoded,    \* the result of decoding text: <<>> or <<result>>
    text2,      \* the JSON text of encoding the decoded value again
    builder,    \* the typed builder in progress: <<>> or <<[ty, fields]>>
    calls,      \* the setter calls made on the builder: field -> argument
    path,       \* a path value at hand: <<>> or <<p>>
    settings,   \* the Settings value a conversion produced: <<>> or <<s>>
    last        \* the operation that acted last

vars == <<value, text, decoded, text2, builder, calls, path, settings, last>>

(***************************************************************************)
(* Option<T>                                                               *)
(***************************************************************************)
None == <<>>
Some(x) == <<x>>
is_none(o) == o = None
is_some(o) == o # None
unwrap(o) == o[1]

(***************************************************************************)
(* Result<T, E>                                                            *)
(***************************************************************************)
Ok(v) == [ok |-> TRUE, val |-> v]
Err(e) == [ok |-> FALSE, err |-> e]

(***************************************************************************)
(* JSON text trees and serde_json::Value                                   *)
(***************************************************************************)
JNull == [t |-> "null"]
JBool(b) == [t |-> "bool", b |-> b]
JNum(n) == [t |-> "num", n |-> n]
JStr(s) == [t |-> "str", s |-> s]
JArr(a) == [t |-> "arr", a |-> a]
JObj(o) == [t |-> "obj", o |-> o]
Entry(k, v) == [k |-> k, v |-> v]

\* serde_json::Value::Object holds a Map: one value per key.
VObj(m) == [t |-> "map", m |-> m]

Keys(o) == {o[i].k : i \in DOMAIN o}
\* The values written under key k, in the order written.
ValuesAt(o, k) == SelectSeq(o, LAMBDA e : e.k = k)
\* The last entry written under key k (a Map insert overwrites).
LastAt(o, k) == LET s == ValuesAt(o, k) IN s[Len(s)].v

\* Byte-wise order of the keys a Value object of the model can hold (the
\* iteration order of serde_json's Map).
MapKeyOrder == <<"enabled", "foo">>
MapKeySeq(m) == SelectSeq(MapKeyOrder, LAMBDA k : k \in DOMAIN m)

RECURSIVE to_value(_)
\* Deserialize for serde_json::Value: what a JSON text parses to.
to_value(j) ==
    CASE j.t = "arr" -> JArr([i \in DOMAIN j.a |-> to_value(j.a[i])])
      [] j.t = "obj" -> VObj([k \in Keys(j.o) |-> to_value(LastAt(j.o, k))])
      [] OTHER -> j

RECURSIVE value_serialize(_)
\* Serialize for serde_json::Value.
value_serialize(v) ==
    CASE v.t = "arr" -> JArr([i \in DOMAIN v.a |-> value_serialize(v.a[i])])
      [] v.t = "map" ->
            LET ks == MapKeySeq(v.m)
            IN JObj([i \in DOMAIN ks |-> Entry(ks[i], value_serialize(v.m[ks[i]]))])
      [] OTHER -> v

(***************************************************************************)
(* serde's rename rules, on an identifier given as its words               *)
(* (allow_unix_sockets is <<"allow", "unix", "sockets">>).                 *)
(***************************************************************************)
\* The word with its first letter in upper case.
Capitalize(w) ==
    CASE w = "allow" -> "Allow"       [] w = "bash" -> "Bash"
      [] w = "if" -> "If"             [] w = "sandboxed" -> "Sandboxed"
      [] w = "commands" -> "Commands" [] w = "unsandboxed" -> "Unsandboxed"
      [] w = "violations" -> "Violations"
      [] w = "weaker" -> "Weaker"     [] w = "nested" -> "Nested"
      [] w = "sandbox" -> "Sandbox"   [] w = "unix" -> "Unix"
      [] w = "sockets" -> "Sockets"   [] w = "all" -> "All"
      [] w = "local" -> "Local"       [] w = "binding" -> "Binding"
      [] w = "proxy" -> "Proxy"       [] w = "port" -> "Port"
      [] w = "file" -> "File"         [] w = "network" -> "Network"
      [] w = "enabled" -> "Enabled"   [] w = "extra" -> "Extra"

RECURSIVE SnakeFrom(_, _)
SnakeFrom(ws, i) ==
    IF i > Len(ws) THEN "" ELSE "_" \o ws[i] \o SnakeFrom(ws, i + 1)
\* The identifier as written in the source.
Ident(ws) == ws[1] \o SnakeFrom(ws, 2)

RECURSIVE CamelFrom(_, _)
CamelFrom(ws, i) ==
    IF i > Len(ws) THEN "" ELSE Capitalize(ws[i]) \o CamelFrom(ws, i + 1)
\* rename_all = "camelCase": first word as is, the others capitalized.
CamelCase(ws) == ws[1] \o CamelFrom(ws, 2)

\* The external key of a field under a container's rename_all attribute
\* ("" when the container has none).
Rename(rule, ws) == IF rule = "camelCase" THEN CamelCase(ws) ELSE Ident(ws)

(***************************************************************************)
(* The schema: each struct with its serde attributes and its fields in     *)
(* declaration order.  Every field is an Option<ty> carrying               *)
(* skip_serializing_if = "Option::is_none", except the flattened map.      *)
(***************************************************************************)
\* Field without its skip_serializing_if attribute: None is written as null.
Field_no_skip(ws, ty) == [ident |-> ws, ty |-> ty, skip_serializing_if |-> ""]

Field(ws, ty) ==
    [ident |-> ws, ty |-> ty, skip_serializing_if |-> "Option::is_none"]

SettingsObject ==
    [rename_all |-> "camelCase",
     fields |-> << Field(<<"sandbox">>, "SandboxSettings") >>,
     flatten |-> Some("extra")]

SandboxNetworkConfig ==
    [rename_all |-> "camelCase",
     fields |-> << Field(<<"allow", "unix", "sockets">>, "Vec<String>"),
                   Field(<<"allow", "all", "unix", "sockets">>, "bool"),
                   Field(<<"allow", "local", "binding">>, "bool"),
                   Field(<<"http", "proxy", "port">>, "u16"),
                   Field(<<"socks", "proxy", "port">>, "u16") >>,
     flatten |-> None]

SandboxIgnoreViolations ==
    [rename_all |-> "",
     fields |-> << Field(<<"file">>, "Vec<String>"),
                   Field(<<"network">>, "Vec<String>") >>,
     flatten |-> None]

\* SandboxSettings without its rename_all attribute: keys are the identifiers.
SandboxSettings_no_rename ==
    [rename_all |-> "",
     fields |-> << Field(<<"enabled">>, "bool"),
                   Field(<<"auto", "allow", "bash", "if", "sandboxed">>, "bool"),
                   Field(<<"excluded", "commands">>, "Vec<String>"),
                   Field(<<"allow", "unsandboxed", "commands">>, "bool"),
                   Field(<<"network">>, "SandboxNetworkConfig"),
                   Field(<<"ignore", "violations">>, "SandboxIgnoreViolations"),
                   Field(<<"enable", "weaker", "nested", "sandbox">>, "bool") >>,
     flatten |-> None]

SandboxSettings ==
    [rename_all |-> "camelCase",
     fields |-> << Field(<<"enabled">>, "bool"),
                   Field(<<"auto", "allow", "bash", "if", "sandboxed">>, "bool"),
                   Field(<<"excluded", "commands">>, "Vec<String>"),
                   Field(<<"allow", "unsandboxed", "commands">>, "bool"),
                   Field(<<"network">>, "SandboxNetworkConfig"),
                   Field(<<"ignore", "violations">>, "SandboxIgnoreViolations"),
                   Field(<<"enable", "weaker", "nested", "sandbox">>, "bool") >>,
     flatten |-> None]

StructTypes ==
    {"SettingsObject", "SandboxSettings", "SandboxNetworkConfig",
     "SandboxIgnoreViolations"}

Schema(ty) ==
    CASE ty = "SettingsObject" -> SettingsObject
      [] ty = "SandboxSettings" -> SandboxSettings
      [] ty = "SandboxNetworkConfig" -> SandboxNetworkConfig
      [] ty = "SandboxIgnoreViolations" -> SandboxIgnoreViolations

\* The field identifiers of a struct, and the external key of each.
FieldNames(ty) == {Ident(Schema(ty).fields[i].ident) : i \in DOMAIN Schema(ty).fields}
KeyOf(ty, i) == Rename(Schema(ty).rename_all, Schema(ty).fields[i].ident)
FieldKeys(ty) == {KeyOf(ty, i) : i \in DOMAIN Schema(ty).fields}
\* The index of the field decoded from key k, 0 when k names no field.
FieldAt(ty, k) ==
    IF k \in FieldKeys(ty)
    THEN CHOOSE i \in DOMAIN Schema(ty).fields : KeyOf(ty, i) = k
    ELSE 0

U16_MAX == 65535

(***************************************************************************)
(* derive(Serialize)                                                       *)
(***************************************************************************)
RECURSIVE Serialize(_, _)
RECURSIVE SerializeFields(_, _, _)

\* The entries of the struct's fields from the i-th on, in declaration
\* order: a field is skipped when its skip_serializing_if predicate holds.
SerializeFields(ty, x, i) ==
    LET d == Schema(ty) IN
    IF i > Len(d.fields) THEN <<>>
    ELSE LET f == d.fields[i]
             o == x[Ident(f.ident)]
             rest == SerializeFields(ty, x, i + 1)
         IN IF f.skip_serializing_if = "Option::is_none" /\ is_none(o)
            THEN rest
            ELSE <<Entry(Rename(d.rename_all, f.ident),
                         IF is_none(o) THEN JNull
                         ELSE Serialize(f.ty, unwrap(o)))>> \o rest

Serialize(ty, x) ==
    CASE ty = "bool" -> JBool(x)
      [] ty = "u16" -> JNum(x)
      [] ty = "Vec<String>" -> JArr([i \in DOMAIN x |-> JStr(x[i])])
      [] OTHER -> JObj(SerializeFields(ty, x, 1))

\* The map without flatten: written as one nested object under its own name.
SerializeNested(m, order) ==
    <<Entry("extra",
            JObj([i \in DOMAIN order |-> Entry(order[i], value_serialize(m[order[i]]))]))>>

\* #[serde(flatten)] on a map: its entries are written into the enclosing
\* object, after the fields; `order` is the map's iteration order.
SerializeFlatten(m, order) ==
    [i \in DOMAIN order |-> Entry(order[i], value_serialize(m[order[i]]))]

\* Serialize for SettingsObject; `order` lists the keys of extra in the
\* order the HashMap iterates them.
SettingsObject_serialize(x, order) ==
    JObj(SerializeFields("SettingsObject", x, 1)
         \o SerializeFlatten(x[unwrap(SettingsObject.flatten)], order))

(***************************************************************************)
(* derive(Deserialize)                                                     *)
(***************************************************************************)
RECURSIVE Deserialize(_, _)
RECURSIVE visit_map(_, _, _, _, _)
RECURSIVE visit_seq(_, _, _, _)

\* Option<T>: null is None, anything else is Some of T's decoding.
DeserializeOption(ty, j) ==
    IF j.t = "null" THEN Ok(None)
    ELSE LET r == Deserialize(ty, j)
         IN IF r.ok THEN Ok(Some(r.val)) ELSE r

\* u16 by truncation to 16 bits (an `as u16` cast) instead of a range check.
DeserializeU16_wrapping(j) ==
    IF j.t # "num" THEN Err("invalid type") ELSE Ok(j.n % (U16_MAX + 1))

\* u16 from a JSON integer: range-checked, never wrapped.
DeserializeU16(j) ==
    IF j.t # "num" THEN Err("invalid type")
    ELSE IF j.n >= 0 /\ j.n <= U16_MAX THEN Ok(j.n)
    ELSE Err("invalid value")

\* The map a flattened HashMap collects from the entries no field took.
CollectMap(collect) ==
    [k \in Keys(collect) |-> to_value(LastAt(collect, k))]

\* The struct once every entry is read: a field never seen is None
\* (Option's missing-field default).
Finish(ty, seen, collect) ==
    LET named == [n \in FieldNames(ty) |->
                    IF seen[n] = <<>> THEN None ELSE seen[n][1]]
        fl == Schema(ty).flatten
    IN IF is_none(fl) THEN named
       ELSE named @@ (unwrap(fl) :> CollectMap(collect))

\* A flattened map that also collects the entries the named fields took.
Taken_collected(collect, e) == Append(collect, e)

\* What becomes of the collected entries when a named field takes entry e:
\* the entry is the field's and is not collected.
Taken(collect, e) == collect

\* What becomes of them when no field takes e: a struct with a flattened
\* map keeps the entry for it, any other struct ignores it.
NotTaken(ty, collect, e) ==
    IF is_some(Schema(ty).flatten) THEN Append(collect, e) ELSE collect

\* The derived visitor over an object's entries from the i-th on.  seen[n]
\* is <<>> until field n is read; collect holds the entries no field took
\* (kept only for a struct with a flattened map, otherwise ignored).
visit_map(ty, o, i, seen, collect) ==
    IF i > Len(o) THEN Ok(Finish(ty, seen, collect))
    ELSE LET e == o[i]
             fi == FieldAt(ty, e.k)
         IN IF fi = 0
            THEN visit_map(ty, o, i + 1, seen, NotTaken(ty, collect, e))
            ELSE LET f == Schema(ty).fields[fi]
                     n == Ident(f.ident)
                 IN IF seen[n] # <<>> THEN Err("duplicate field")
                    ELSE LET r == DeserializeOption(f.ty, e.v)
                         IN IF ~r.ok THEN r
                            ELSE visit_map(ty, o, i + 1,
                                           [seen EXCEPT ![n] = <<r.val>>],
                                           Taken(collect, e))

\* The derived visitor over an array: the fields by position.
visit_seq(ty, a, i, acc) ==
    LET d == Schema(ty) IN
    IF i > Len(d.fields)
    THEN IF Len(a) > Len(d.fields) THEN Err("trailing characters")
         ELSE Ok(acc)
    ELSE IF i > Len(a) THEN Err("invalid length")
    ELSE LET r == DeserializeOption(d.fields[i].ty, a[i])
         IN IF ~r.ok THEN r
            ELSE visit_seq(ty, a, i + 1,
                           [acc EXCEPT ![Ident(d.fields[i].ident)] = r.val])

Unseen(ty) == [n \in FieldNames(ty) |-> <<>>]

Deserialize(ty, j) ==
    CASE ty = "bool" ->
            IF j.t = "bool" THEN Ok(j.b) ELSE Err("invalid type")
      [] ty = "u16" -> DeserializeU16(j)
      [] ty = "Vec<String>" ->
            IF j.t = "arr" /\ \A i \in DOMAIN j.a : j.a[i].t = "str"
            THEN Ok([i \in DOMAIN j.a |-> j.a[i].s])
            ELSE Err("invalid type")
      [] OTHER ->
            IF j.t = "obj" THEN visit_map(ty, j.o, 1, Unseen(ty), <<>>)
            ELSE IF j.t = "arr" /\ is_none(Schema(ty).flatten)
            THEN visit_seq(ty, j.a, 1, Unseen(ty))
            ELSE Err("invalid type")

(***************************************************************************)
(* Entry points: serde_json::to_string / from_str on each type.  The text  *)
(* of a SettingsObject depends on the iteration order of its HashMap.      *)
(***************************************************************************)
\* The orders in which a HashMap with key set S may iterate.
Orders(S) ==
    {o \in [1..Cardinality(S) -> S] : \A i, j \in DOMAIN o : o[i] = o[j] => i = j}

to_string(ty, x, order) ==
    IF ty = "SettingsObject" THEN SettingsObject_serialize(x, order)
    ELSE Serialize(ty, x)

from_str(ty, j) == Deserialize(ty, j)

(***************************************************************************)
(* Settings and its From conversions                                       *)
(***************************************************************************)
Settings_Path(p) == [variant |-> "Path", path |-> p]
Settings_Json(s) == [variant |-> "Json", json |-> s]
Settings_Object(o) == [variant |-> "Object", obj |-> o]

\* Path::to_path_buf: an owned copy of the borrowed path.
to_path_buf(p) == p

\* A conversion that lands in the wrong variant.
From_Path_json(p) == Settings_Json(p)

From_PathBuf(p) == Settings_Path(p)
From_Path(p) == Settings_Path(to_path_buf(p))
From_SettingsObject(obj) == Settings_Object(obj)

(***************************************************************************)
(* derive(TypedBuilder): every field is #[builder(default)]; the Option    *)
(* fields take setter(strip_option), so a setter is given the inner value. *)
(***************************************************************************)
\* All fields of a struct, the flattened map included.
AllFieldNames(ty) ==
    FieldNames(ty) \cup
        (IF is_some(Schema(ty).flatten) THEN {unwrap(Schema(ty).flatten)} ELSE {})

\* setter(strip_option) is on the Option fields, not on the map.
strip_option(ty, n) == n \in FieldNames(ty)

\* #[builder(default)]: Default::default() of the field's type.
Default(ty, n) == IF n \in FieldNames(ty) THEN None ELSE <<>>

\* T::builder(): no field set yet.
builder_new(ty) == [ty |-> ty, set |-> <<>>]

\* A setter that leaves the builder as it was.
builder_set_dropped(b, n, v) == b

\* The setter of field n, given v.
builder_set(b, n, v) ==
    [b EXCEPT !.set = @ @@ (n :> (IF strip_option(b.ty, n) THEN Some(v) ELSE v))]

\* build(): a field never set takes its default.
builder_build(b) ==
    [n \in AllFieldNames(b.ty) |->
        IF n \in DOMAIN b.set THEN b.set[n] ELSE Default(b.ty, n)]

(***************************************************************************)
(* Bounded input sets                                                      *)
(***************************************************************************)
MaxExtra == 2      \* most entries of an extra map
MaxEntries == 2    \* most entries of a JSON object given to the decoder

Opt(S) == {None} \cup {Some(x) : x \in S}

StrLists == {<<>>, <<"git", "docker">>}
Ports == {0, 8080, U16_MAX}

SandboxNetworkConfigs ==
    [allow_unix_sockets : Opt(StrLists),
     allow_all_unix_sockets : Opt(BOOLEAN),
     allow_local_binding : Opt(BOOLEAN),
     http_proxy_port : Opt(Ports),
     socks_proxy_port : Opt(Ports)]

SandboxIgnoreViolationsSet ==
    [file : Opt(StrLists), network : Opt(StrLists)]

\* Nested values a SandboxSettings of the model holds.
NetworkSample ==
    {n \in SandboxNetworkConfigs :
        \/ \A f \in DOMAIN n : is_none(n[f])
        \/ /\ \A f \in DOMAIN n : is_some(n[f])
           /\ n.allow_all_unix_sockets = Some(FALSE)
           /\ n.allow_local_binding = Some(TRUE)
           /\ n.allow_unix_sockets = Some(<<"git", "docker">>)
           /\ n.http_proxy_port = Some(8080)
           /\ n.socks_proxy_port = Some(U16_MAX)
        \/ /\ \A f \in DOMAIN n \ {"http_proxy_port"} : is_none(n[f])
           /\ n.http_proxy_port = Some(0)}

IgnoreSample ==
    {i \in SandboxIgnoreViolationsSet :
        \/ i.file = None /\ i.network = None
        \/ i.file = Some(<<"git", "docker">>) /\ i.network = Some(<<>>)
        \/ i.file = None /\ i.network = Some(<<"git", "docker">>)}

SandboxSettingsSet ==
    [enabled : Opt(BOOLEAN),
     auto_allow_bash_if_sandboxed : Opt(BOOLEAN),
     excluded_commands : Opt(StrLists),
     allow_unsandboxed_commands : Opt(BOOLEAN),
     network : Opt(NetworkSample),
     ignore_violations : Opt(IgnoreSample),
     enable_weaker_nested_sandbox : Opt(BOOLEAN)]

\* Sandbox values a SettingsObject of the model holds: the flags and the
\* command list all absent or all present, around each nested sample.
SandboxSample ==
    {s \in SandboxSettingsSet :
        /\ \/ /\ s.enabled = None
              /\ s.auto_allow_bash_if_sandboxed = None
              /\ s.excluded_commands = None
              /\ s.allow_unsandboxed_commands = None
              /\ s.enable_weaker_nested_sandbox = None
           \/ /\ s.enabled = Some(TRUE)
              /\ s.auto_allow_bash_if_sandboxed = Some(FALSE)
              /\ s.excluded_commands = Some(<<"git", "docker">>)
              /\ s.allow_unsandboxed_commands = Some(FALSE)
              /\ s.enable_weaker_nested_sandbox = Some(TRUE)
        /\ s.ignore_violations \in Opt({i \in IgnoreSample : i.file # None})}

ExtraKeys == {"sandbox", "extra", "model"}
ExtraValues ==
    {JNull, JNum(1), JStr("opus"),
     VObj([k \in {"enabled", "foo"} |-> IF k = "enabled" THEN JBool(TRUE) ELSE JNum(1)])}

ExtraMaps ==
    UNION {[K -> ExtraValues] : K \in {K \in SUBSET ExtraKeys : Cardinality(K) <= MaxExtra}}

SettingsObjects == [sandbox : Opt(SandboxSample), extra : ExtraMaps]

Typed(ty, S) == {[ty |-> ty, val |-> v] : v \in S}

Paths == {"", "settings.json", "/etc/claude/settings.json", "./missing.json"}

(***************************************************************************)
(* JSON texts given to the decoder: objects of at most MaxEntries entries  *)
(* drawn from a pool per type, and a few arrays.                           *)
(***************************************************************************)
PortInputs == {-1, 0, 8080, U16_MAX, U16_MAX + 1, U16_MAX + 1 + 8080}

NetworkEntryPool ==
    {Entry(k, v) : k \in {"httpProxyPort", "socksProxyPort", "http_proxy_port"},
                   v \in {JNum(n) : n \in PortInputs} \cup {JNull, JStr("8080")}}
    \cup {Entry(k, JBool(TRUE)) :
            k \in {"allowAllUnixSockets", "allow_all_unix_sockets",
                   "allowLocalBinding", "allow_local_binding"}}
    \cup {Entry(k, JArr(<<JStr("/run/ssh.sock")>>)) :
            k \in {"allowUnixSockets", "allow_unix_sockets"}}

IgnoreEntryPool ==
    {Entry(k, v) : k \in {"file", "network", "File"},
                   v \in {JArr(<<>>), JArr(<<JStr("/tmp")>>), JNull, JStr("/tmp")}}

SandboxEntryPool ==
    {Entry(k, JBool(TRUE)) :
        k \in {"enabled", "autoAllowBashIfSandboxed", "auto_allow_bash_if_sandboxed",
               "allowUnsandboxedCommands", "allow_unsandboxed_commands",
               "enableWeakerNestedSandbox", "enable_weaker_nested_sandbox"}}
    \cup {Entry(k, JArr(<<JStr("git")>>)) :
            k \in {"excludedCommands", "excluded_commands"}}
    \cup {Entry("network", JObj(<<Entry("httpProxyPort", JNum(8080))>>))}
    \cup {Entry(k, JObj(<<Entry("file", JArr(<<JStr("/tmp")>>))>>)) :
            k \in {"ignoreViolations", "ignore_violations"}}

ObjectEntryPool ==
    {Entry(k, v) :
        k \in {"sandbox", "model", "extra"},
        v \in {JNull, JNum(1), JObj(<<>>),
               JObj(<<Entry("enabled", JBool(TRUE))>>),
               JObj(<<Entry("foo", JNum(1)), Entry("foo", JNum(2))>>),
               JObj(<<Entry("network",
                            JObj(<<Entry("httpProxyPort", JNum(U16_MAX + 1))>>))>>)}}

Objects(pool) == {JObj(o) : o \in UNION {[1..n -> pool] : n \in 0..MaxEntries}}

ArrayTexts ==
    {[ty |-> "SandboxIgnoreViolations", json |-> JArr(a)] :
        a \in {<<>>, <<JNull>>, <<JArr(<<JStr("/tmp")>>), JNull>>,
               <<JNull, JArr(<<>>), JNull>>}}

Texts ==
    {[ty |-> "SettingsObject", json |-> j] : j \in Objects(ObjectEntryPool)}
    \cup {[ty |-> "SandboxSettings", json |-> j] : j \in Objects(SandboxEntryPool)}
    \cup {[ty |-> "SandboxNetworkConfig", json |-> j] : j \in Objects(NetworkEntryPool)}
    \cup {[ty |-> "SandboxIgnoreViolations", json |-> j] : j \in Objects(IgnoreEntryPool)}
    \cup ArrayTexts

(***************************************************************************)
(* Actions                                                                 *)
(***************************************************************************)
\* The keys of the flattened map of a value, {} for a struct without one.
FlattenKeys(ty, x) ==
    IF is_some(Schema(ty).flatten) THEN DOMAIN x[unwrap(Schema(ty).flatten)] ELSE {}

\* serde_json::to_string(&value)
Encode ==
    /\ value # <<>> /\ text = <<>>
    /\ \E order \in Orders(FlattenKeys(value[1].ty, value[1].val)) :
         text' = <<[ty |-> value[1].ty,
                    json |-> to_string(value[1].ty, value[1].val, order)]>>
    /\ last' = "encode"
    /\ UNCHANGED <<value, decoded, text2, builder, calls, path, settings>>

\* serde_json::from_str::<T>(&text)
Decode ==
    /\ text # <<>> /\ decoded = <<>>
    /\ decoded' = <<from_str(text[1].ty, text[1].json)>>
    /\ last' = "decode"
    /\ UNCHANGED <<value, text, text2, builder, calls, path, settings>>

\* serde_json::to_string(&decoded) of a value that decoded
ReEncode ==
    /\ decoded # <<>> /\ decoded[1].ok /\ text2 = <<>>
    /\ \E order \in Orders(FlattenKeys(text[1].ty, decoded[1].val)) :
         text2' = <<[ty |-> text[1].ty,
                     json |-> to_string(text[1].ty, decoded[1].val, order)]>>
    /\ last' = "reencode"
    /\ UNCHANGED <<value, text, decoded, builder, calls, path, settings>>

\* Settings::from(path: PathBuf)
FromPathBuf ==
    /\ path # <<>>
    /\ settings' = <<From_PathBuf(path[1])>>
    /\ last' = "from_pathbuf"
    /\ UNCHANGED <<value, text, decoded, text2, builder, calls, path>>

\* Settings::from(path: &Path)
FromPath ==
    /\ path # <<>>
    /\ settings' = <<From_Path(path[1])>>
    /\ last' = "from_path"
    /\ UNCHANGED <<value, text, decoded, text2, builder, calls, path>>

\* Settings::from(obj: SettingsObject)
FromSettingsObject ==
    /\ value # <<>> /\ value[1].ty = "SettingsObject"
    /\ settings' = <<From_SettingsObject(value[1].val)>>
    /\ last' = "from_object"
    /\ UNCHANGED <<value, text, decoded, text2, builder, calls, path>>

\* The arguments the model gives the setter of field n.
SetterInputs(ty, n) ==
    CASE ty = "SettingsObject" /\ n = "sandbox" -> SandboxSample
      [] ty = "SettingsObject" /\ n = "extra" -> ExtraMaps
      [] ty = "SandboxSettings" /\ n = "network" -> NetworkSample
      [] ty = "SandboxSettings" /\ n = "ignore_violations" -> IgnoreSample
      [] ty = "SandboxSettings" /\ n = "excluded_commands" -> StrLists
      [] ty = "SandboxSettings" -> BOOLEAN
      [] ty = "SandboxNetworkConfig" /\ n = "allow_unix_sockets" -> StrLists
      [] ty = "SandboxNetworkConfig" /\ n \in {"http_proxy_port", "socks_proxy_port"} -> Ports
      [] ty = "SandboxNetworkConfig" -> BOOLEAN
      [] ty = "SandboxIgnoreViolations" -> StrLists

\* T::builder()
Builder ==
    /\ builder = <<>> /\ value = <<>>
    /\ \E ty \in StructTypes : builder' = <<builder_new(ty)>>
    /\ calls' = <<>>
    /\ last' = "builder"
    /\ UNCHANGED <<value, text, decoded, text2, path, settings>>

\* A setter of the builder: each field's setter can be called once.
Setter ==
    /\ builder # <<>>
    /\ \E n \in AllFieldNames(builder[1].ty) \ DOMAIN builder[1].set :
         \E v \in SetterInputs(builder[1].ty, n) :
            /\ builder' = <<builder_set(builder[1], n, v)>>
            /\ calls' = calls @@ (n :> v)
    /\ last' = "set"
    /\ UNCHANGED <<value, text, decoded, text2, path, settings>>

\* build(): consumes the builder.
Build ==
    /\ builder # <<>>
    /\ value' = <<[ty |-> builder[1].ty, val |-> builder_build(builder[1])]>>
    /\ builder' = <<>>
    /\ last' = "build"
    /\ UNCHANGED <<text, decoded, text2, calls, path, settings>>

(***************************************************************************)
(* Specifications                                                          *)
(***************************************************************************)
Blank ==
    /\ text = <<>> /\ decoded = <<>> /\ text2 = <<>>
    /\ builder = <<>> /\ calls = <<>> /\ path = <<>> /\ settings = <<>>
    /\ last = "init"

\* Round trips of SettingsObject values.
Init ==
    /\ value \in {<<v>> : v \in Typed("SettingsObject", SettingsObjects)}
    /\ Blank
Next == Encode \/ Decode \/ ReEncode
Spec == Init /\ [][Next]_vars

\* Encoding and decoding of each type: from a value of a nested record or
\* a SettingsObject, or from a JSON text given to the decoder.
InitCodec ==
    /\ \/ /\ value \in {<<v>> :
                v \in Typed("SandboxSettings", SandboxSettingsSet)
                      \cup Typed("SandboxNetworkConfig", SandboxNetworkConfigs)
                      \cup Typed("SandboxIgnoreViolations", SandboxIgnoreViolationsSet)
                      \cup Typed("SettingsObject",
                                 {o \in SettingsObjects : Cardinality(DOMAIN o.extra) <= 1})}
          /\ text = <<>>
       \/ /\ value = <<>>
          /\ text \in {<<t>> : t \in Texts}
    /\ decoded = <<>> /\ text2 = <<>>
    /\ builder = <<>> /\ calls = <<>> /\ path = <<>> /\ settings = <<>>
    /\ last = "init"
SpecCodec == InitCodec /\ [][Next]_vars

\* Typed builders.
InitBuilder == value = <<>> /\ Blank
NextBuilder == Builder \/ Setter \/ Build \/ Encode
SpecBuilder == InitBuilder /\ [][NextBuilder]_vars

\* The From conversions into Settings.
InitFrom ==
    /\ value \in {<<v>> : v \in Typed("SettingsObject", SettingsObjects)}
    /\ path \in {<<p>> : p \in Paths}
    /\ text = <<>> /\ decoded = <<>> /\ text2 = <<>>
    /\ builder = <<>> /\ calls = <<>> /\ settings = <<>>
    /\ last = "init"
NextFrom == FromPathBuf \/ FromPath \/ FromSettingsObject
SpecFrom == InitFrom /\ [][NextFrom]_vars

(***************************************************************************)
(* Properties                                                              *)
(***************************************************************************)
\* The external key the schema's documentation gives each field.
ExternalName(n) ==
    CASE n = "sandbox" -> "sandbox"
      [] n = "enabled" -> "enabled"
      [] n = "auto_allow_bash_if_sandboxed" -> "autoAllowBashIfSandboxed"
      [] n = "excluded_commands" -> "excludedCommands"
      [] n = "allow_unsandboxed_commands" -> "allowUnsandboxedCommands"
      [] n = "network" -> "network"
      [] n = "ignore_violations" -> "ignoreViolations"
      [] n = "enable_weaker_nested_sandbox" -> "enableWeakerNestedSandbox"
      [] n = "allow_unix_sockets" -> "allowUnixSockets"
      [] n = "allow_all_unix_sockets" -> "allowAllUnixSockets"
      [] n = "allow_local_binding" -> "allowLocalBinding"
      [] n = "http_proxy_port" -> "httpProxyPort"
      [] n = "socks_proxy_port" -> "socksProxyPort"
      [] n = "file" -> "file"

Buildable == {"SandboxSettings", "SandboxNetworkConfig", "SandboxIgnoreViolations"}

\* The Option fields of a decoded or constructed struct value.
Named(x) == DOMAIN x \ {"extra"}
Present(x) == {n \in Named(x) : is_some(x[n])}

\* Two objects hold the same entries, each as often, in any order.
SameEntries(o1, o2) ==
    /\ Len(o1) = Len(o2)
    /\ \A i \in DOMAIN o1 :
          Len(SelectSeq(o1, LAMBDA e : e = o1[i])) = Len(SelectSeq(o2, LAMBDA e : e = o1[i]))

\* C1: decoding the encoding of any SettingsObject succeeds and yields a
\* value equal to it.
C1_RoundTrip ==
    last = "decode" => decoded[1].ok /\ decoded[1].val = value[1].val

\* C2: a SettingsObject whose sandbox is absent encodes to an object with
\* no key `sandbox`, whatever its extra mapping holds.
C2_NoSandboxKey ==
    (last = "encode" /\ is_none(value[1].val.sandbox))
        => "sandbox" \notin Keys(text[1].json.o)

RECURSIVE Omits(_, _, _)
\* j is an object with no key for an absent field of x and no null value,
\* and so are the objects nested in it.
Omits(ty, x, j) ==
    /\ j.t = "obj"
    /\ \A n \in Named(x) : is_none(x[n]) => ExternalName(n) \notin Keys(j.o)
    /\ \A i \in DOMAIN j.o : j.o[i].v.t # "null"
    /\ ty = "SandboxSettings" =>
          /\ is_some(x.network) =>
                \E i \in DOMAIN j.o :
                    /\ j.o[i].k = "network"
                    /\ Omits("SandboxNetworkConfig", unwrap(x.network), j.o[i].v)
          /\ is_some(x.ignore_violations) =>
                \E i \in DOMAIN j.o :
                    /\ j.o[i].k = "ignoreViolations"
                    /\ Omits("SandboxIgnoreViolations", unwrap(x.ignore_violations), j.o[i].v)

\* C3: in the encoding of a SandboxSettings, SandboxNetworkConfig or
\* SandboxIgnoreViolations, an absent field contributes no key and nothing
\* is written as null, at every nesting level, also below the sandbox entry
\* of an encoded SettingsObject.
C3_Omission ==
    last = "encode" =>
        IF value[1].ty \in Buildable
        THEN Omits(value[1].ty, value[1].val, text[1].json)
        ELSE is_some(value[1].val.sandbox) =>
                \E i \in DOMAIN text[1].json.o :
                    /\ text[1].json.o[i].k = "sandbox"
                    /\ Omits("SandboxSettings", unwrap(value[1].val.sandbox),
                             text[1].json.o[i].v)

C3_Witness ==
    /\ last = "encode" /\ value[1].ty = "SandboxSettings"
    /\ is_none(value[1].val.enabled)
    /\ is_some(value[1].val.allow_unsandboxed_commands)
    /\ is_some(value[1].val.network)
    /\ is_none(unwrap(value[1].val.network).allow_local_binding)
    /\ is_some(unwrap(value[1].val.network).http_proxy_port)
    /\ is_some(value[1].val.ignore_violations)
    /\ is_none(unwrap(value[1].val.ignore_violations).file)

\* C4: every entry (k, val) of extra is a top-level entry of the encoded
\* object, key k with value val, and the object has a key `extra` only when
\* the extra mapping itself holds the key `extra`.
C4_Flattening ==
    last = "encode" =>
        /\ \A k \in DOMAIN value[1].val.extra :
              \E i \in DOMAIN text[1].json.o :
                  /\ text[1].json.o[i].k = k
                  /\ to_value(text[1].json.o[i].v) = value[1].val.extra[k]
        /\ "extra" \in Keys(text[1].json.o) => "extra" \in DOMAIN value[1].val.extra

C4_Witness ==
    /\ last = "encode"
    /\ is_some(value[1].val.sandbox)
    /\ DOMAIN value[1].val.extra = {"model", "sandbox"}
    /\ text[1].json.o[Len(text[1].json.o)].k = "model"

\* C5: a present field is encoded under its documented external key (camel
\* case, `file` and `network` as they are) and under no other, and decoding
\* reads a field from that key and from no other.
C5_KeyCasing ==
    /\ (last = "encode" /\ value[1].ty \in Buildable) =>
          Keys(text[1].json.o) = {ExternalName(n) : n \in Present(value[1].val)}
    /\ (last = "encode" /\ value[1].ty = "SettingsObject") =>
          (is_some(value[1].val.sandbox) => "sandbox" \in Keys(text[1].json.o))
    /\ (last = "decode" /\ text[1].json.t = "obj" /\ decoded[1].ok) =>
          \A n \in Named(decoded[1].val) :
              is_some(decoded[1].val[n]) <=>
                  \E i \in DOMAIN text[1].json.o :
                      /\ text[1].json.o[i].k = ExternalName(n)
                      /\ text[1].json.o[i].v.t # "null"

C5_Witness ==
    /\ last = "decode" /\ value = <<>> /\ text[1].ty = "SandboxSettings"
    /\ Keys(text[1].json.o) = {"ignore_violations", "enableWeakerNestedSandbox"}
    /\ decoded[1].ok
    /\ is_none(decoded[1].val.ignore_violations)
    /\ decoded[1].val.enable_weaker_nested_sandbox = Some(TRUE)

\* The JSON value the documentation gives an argument of a setter.
ArgMatches(ty, n, v, j) ==
    CASE ty = "SandboxSettings" /\ n \in {"network", "ignore_violations"} ->
            j.t = "obj" /\ Keys(j.o) = {ExternalName(m) : m \in Present(v)}
      [] n \in {"http_proxy_port", "socks_proxy_port"} -> j = JNum(v)
      [] n \in {"excluded_commands", "allow_unix_sockets", "file", "network"} ->
            j = JArr([i \in DOMAIN v |-> JStr(v[i])])
      [] OTHER -> j = JBool(v)

\* C6: a SandboxSettings, SandboxNetworkConfig or SandboxIgnoreViolations
\* built after calling the setters of a set S of fields holds the given
\* values for S and absent elsewhere; its encoding has exactly the external
\* keys of S with the given values, `{}` when S is empty, and exactly
\* {"httpProxyPort": p} when only http_proxy_port = p was set.
C6_Builder ==
    /\ (last = "build" /\ value[1].ty \in Buildable) =>
          \A n \in DOMAIN value[1].val :
              value[1].val[n] = IF n \in DOMAIN calls THEN Some(calls[n]) ELSE None
    /\ (last = "encode" /\ value[1].ty \in Buildable) =>
          /\ Len(text[1].json.o) = Cardinality(DOMAIN calls)
          /\ \A n \in DOMAIN calls :
                \E i \in DOMAIN text[1].json.o :
                    /\ text[1].json.o[i].k = ExternalName(n)
                    /\ ArgMatches(value[1].ty, n, calls[n], text[1].json.o[i].v)
          /\ DOMAIN calls = {} => text[1].json = JObj(<<>>)
          /\ (value[1].ty = "SandboxNetworkConfig" /\ DOMAIN calls = {"http_proxy_port"}) =>
                text[1].json = JObj(<<Entry("httpProxyPort", JNum(calls["http_proxy_port"]))>>)

C6_Witness ==
    /\ last = "encode" /\ value[1].ty = "SandboxNetworkConfig"
    /\ DOMAIN calls = {"http_proxy_port"}
    /\ calls["http_proxy_port"] = 8080
    /\ text[1].json = JObj(<<Entry("httpProxyPort", JNum(8080))>>)

\* C7: decoding an object into a SettingsObject puts the value of `sandbox`
\* in the sandbox field and every other key, with its value, in extra;
\* `sandbox` is never a key of extra; {"sandbox":{"enabled":true}} decodes
\* with sandbox.enabled true and extra empty; a text without `sandbox`
\* decodes with sandbox absent.
C7_DecodePartition ==
    (last = "decode" /\ text[1].ty = "SettingsObject") =>
        LET o == text[1].json.o
            r == decoded[1]
        IN /\ r.ok =>
                /\ "sandbox" \notin DOMAIN r.val.extra
                /\ DOMAIN r.val.extra = Keys(o) \ {"sandbox"}
                /\ \A k \in DOMAIN r.val.extra :
                      \E i \in DOMAIN o : o[i].k = k /\ to_value(o[i].v) = r.val.extra[k]
                /\ "sandbox" \notin Keys(o) => is_none(r.val.sandbox)
                /\ \A i \in DOMAIN o :
                      o[i].k = "sandbox" =>
                          /\ is_none(r.val.sandbox) <=> o[i].v.t = "null"
                          /\ o[i].v = JObj(<<Entry("enabled", JBool(TRUE))>>) =>
                                unwrap(r.val.sandbox).enabled = Some(TRUE)
           /\ "sandbox" \notin Keys(o) => r.ok
           /\ o = <<Entry("sandbox", JObj(<<Entry("enabled", JBool(TRUE))>>))>> =>
                r.ok /\ DOMAIN r.val.extra = {}

C7_Witness ==
    /\ last = "decode" /\ value = <<>> /\ text[1].ty = "SettingsObject"
    /\ text[1].json.o = <<Entry("model", JNum(1)),
                          Entry("sandbox", JObj(<<Entry("enabled", JBool(TRUE))>>))>>
    /\ decoded[1].ok
    /\ unwrap(decoded[1].val.sandbox).enabled = Some(TRUE)
    /\ DOMAIN decoded[1].val.extra = {"model"}

\* C8: decoding the encoding of any SettingsObject and encoding the result
\* again gives the same keys with the same values as the first encoding.
C8_ReEncodeStable ==
    last = "reencode" => SameEntries(text[1].json.o, text2[1].json.o)

\* C9: a path converts to the Path variant holding that path, a
\* SettingsObject to the Object variant holding that object; a conversion
\* always yields a value and never the Json variant.
C9_IdentityWrap ==
    /\ last \in {"from_pathbuf", "from_path"} =>
          settings = <<[variant |-> "Path", path |-> path[1]]>>
    /\ last = "from_object" =>
          settings = <<[variant |-> "Object", obj |-> value[1].val]>>
    /\ settings # <<>> => settings[1].variant # "Json"

C9_Witness ==
    /\ last = "from_path" /\ path = <<"./missing.json">>
    /\ settings[1].variant = "Path" /\ settings[1].path = "./missing.json"

PortField(k) == IF k = "httpProxyPort" THEN "http_proxy_port" ELSE "socks_proxy_port"

\* C10: a network object whose httpProxyPort or socksProxyPort is an integer
\* in 0..65535 decodes to a config holding that number; with an integer
\* outside 0..65535 decoding fails; a port is never wrapped or truncated.
C10_PortRange ==
    (last = "decode" /\ text[1].ty = "SandboxNetworkConfig" /\ text[1].json.t = "obj") =>
        LET o == text[1].json.o
            r == decoded[1]
        IN \A i \in DOMAIN o :
              (o[i].k \in {"httpProxyPort", "socksProxyPort"} /\ o[i].v.t = "num") =>
                  IF o[i].v.n >= 0 /\ o[i].v.n <= 65535
                  THEN /\ r.ok => r.val[PortField(o[i].k)] = Some(o[i].v.n)
                       /\ Len(o) = 1 => r.ok
                  ELSE ~r.ok

C10_Witness ==
    /\ last = "decode" /\ text[1].ty = "SandboxNetworkConfig"
    /\ text[1].json.o = <<Entry("socksProxyPort", JNum(8080)),
                          Entry("httpProxyPort", JNum(65536 + 8080))>>
    /\ ~decoded[1].ok

====
